---- MODULE Spec2Model ----
(***************************************************************************)
(* Model of py-app/app.py: MyHandler (a SimpleHTTPRequestHandler whose     *)
(* do_GET writes a fixed response) served by run() through an HTTPServer.  *)
(* The behaviour app.py inherits from http.server / socketserver (request  *)
(* parsing, method dispatch, the header buffer, the serve loop, bind) is   *)
(* modelled as the semantics of the statements of app.py that invoke it.   *)
(***************************************************************************)
EXTENDS Integers, Sequences, FiniteSets, TLC

\* ---------------------------------------------------------------- bounds
MaxConns == 2      \* client connections that exist at the same time

\* ------------------------------------------------------- program constants
DefaultPort == 8000

Inst  == {1, 2}                   \* two runs of "python app.py", in start order
Conns == 1..MaxConns
Times == {0, 1}                   \* two instants time.time() may return

Methods  == {"GET", "POST", "HEAD"}
Paths    == {"/", "/anything/else"}
Bodies   == {"", "x"}
Versions == {"HTTP/0.9", "HTTP/1.1", "HTTP/2.0"}

\* What a client puts on the wire.  An HTTP/0.9 simple request is the bare
\* line "GET /path": it has no version token, no headers and no body.
Requests ==
  {r \in [method : Methods, path : Paths, version : Versions, body : Bodies] :
      r.version # "HTTP/1.1" => r.body = ""}

NoRequest == [method |-> "", path |-> "", version |-> "", body |-> ""]

\* Command lines and environments the process may be started with.
Argvs    == {<<>>, <<9000>>}
Environs == {0, 9000}             \* value of a PORT variable, 0 = unset

VARIABLES proc, backlog, conn, hnd, wire, stderr, obs

vars == <<proc, backlog, conn, hnd, wire, stderr, obs>>

\* ------------------------------------------------------------ wire items
Item(t, name, value, n) == [t |-> t, name |-> name, value |-> value, n |-> n]

StatusLine(version, code, msg) == Item("status", version, msg, code)
Header(name, value)            == Item("header", name, value, 0)
DateHeader(t)                  == Item("header", "Date", "", t)
EndOfHeaders                   == Item("end", "", "", 0)
Body(data)                     == Item("body", "", data, 0)

\* BaseHTTPRequestHandler class attributes inherited by MyHandler
protocol_version        == "HTTP/1.0"
default_request_version == "HTTP/0.9"
version_string          == "SimpleHTTP/0.6 Python/3"

Responses(code) ==
  CASE code = 200 -> "OK"
    [] code = 301 -> "Moved Permanently"
    [] code = 400 -> "Bad Request"
    [] code = 404 -> "Not Found"
    [] code = 501 -> "Not Implemented"
    [] code = 505 -> "HTTP Version Not Supported"
    [] OTHER      -> ""

\* --------------------------------------------------------------- handler
NoHandler ==
  [pc |-> "none", req |-> NoRequest, command |-> "", request_version |-> "",
   close_connection |-> TRUE, hbuf |-> <<>>]

\* socketserver.finish_request: RequestHandlerClass(request, addr, server)
NewHandler ==
  [pc |-> "read", req |-> NoRequest, command |-> "",
   request_version |-> default_request_version,
   close_connection |-> TRUE, hbuf |-> <<>>]

\* log_message: a line is written to the process's stderr.  Of the log only
\* whether anything has been written yet is kept.
LogLine(written) == TRUE

\* Variant: send_response_only is called in place of send_response
SendResponseItemsOnly(h, code, t) ==
  IF h.request_version # "HTTP/0.9"
    THEN <<StatusLine(protocol_version, code, Responses(code))>>
    ELSE <<>>

\* Variant: the handler marks the responses that follow the first logged one
SendResponseItemsSeen(h, code, t) ==
  IF h.request_version # "HTTP/0.9"
    THEN <<StatusLine(protocol_version, code, Responses(code)),
           Header("Server", version_string), DateHeader(t)>>
           \o (IF \E i \in Inst : stderr[i]
                THEN <<Header("X-Seen", "before")>> ELSE <<>>)
    ELSE <<>>

\* send_response_only + send_header("Server") + send_header("Date"):
\* nothing is buffered for an HTTP/0.9 request.
SendResponseItems(h, code, t) ==
  IF h.request_version # "HTTP/0.9"
    THEN <<StatusLine(protocol_version, code, Responses(code)),
           Header("Server", version_string), DateHeader(t)>>
    ELSE <<>>

\* Variant: headers are set for the root path only
SendHeaderItemsRouted(h, name, value) ==
  IF h.request_version # "HTTP/0.9" /\ h.req.path = "/"
    THEN <<Header(name, value)>> ELSE <<>>

SendHeaderItems(h, name, value) ==
  IF h.request_version # "HTTP/0.9" THEN <<Header(name, value)>> ELSE <<>>

EndHeadersItems(h) ==
  IF h.request_version # "HTTP/0.9" THEN <<EndOfHeaders>> ELSE <<>>

\* Variant: the body ends with a newline
HelloBodyNewline == "Hello, again!\n"

\* The body do_GET writes (app.py line 9)
HelloBody == "Hello, again!"

\* Outcomes of wfile.write on connection c: a write to an open peer succeeds;
\* a write to a peer that has gone either still reaches the kernel buffer or
\* raises BrokenPipeError / ConnectionResetError.
WriteOutcomes(c) == IF conn[c].peer = "open" THEN {"ok"} ELSE {"ok", "raise"}

\* ------------------------------------------------------------- the state
\* obs is not program state: it is what an observer of the wire remembers of
\* one earlier GET exchange, if it is watching at all.
NoObs  == [on |-> TRUE,  set |-> FALSE, req |-> NoRequest, wire |-> <<>>]
ObsOff == [on |-> FALSE, set |-> FALSE, req |-> NoRequest, wire |-> <<>>]

NoConn == [st |-> "idle", srv |-> 0, peer |-> "open", sent |-> FALSE]

Live      == {"bound", "select", "handle"}     \* the process holds its socket
Listening(i) == proc[i].pc \in Live

\* The connections process i has accepted and not yet shut down
Accepted(i) == {c \in Conns : conn[c].st = "accepted" /\ conn[c].srv = i}

InitProgram ==
  /\ proc    = [i \in Inst |-> [pc |-> "start", host |-> "", port |-> 0]]
  /\ backlog = [i \in Inst |-> <<>>]
  /\ conn    = [c \in Conns |-> NoConn]
  /\ hnd     = [c \in Conns |-> NoHandler]
  /\ wire    = [c \in Conns |-> <<>>]
  /\ stderr  = [i \in Inst |-> FALSE]

Init == InitProgram /\ obs = NoObs

\* --------------------------------------------------------------- run()
\* Variant: the port is taken from the command line
PortOfArgv(argv, environ) == IF argv # <<>> THEN argv[1] ELSE DefaultPort

\* app.py line 11 and 18: run() is called with no arguments, so port is the
\* default of the parameter whatever the command line or environment says.
PortOf(argv, environ) == DefaultPort

\* line 12: server_address = ('', port)
ServerAddress(argv, environ) == [host |-> "", port |-> PortOf(argv, environ)]

\* Variant: the port is shared (SO_REUSEPORT)
AddrInUseNever(i, addr) == FALSE

\* bind() of line 13 fails with EADDRINUSE when a live socket holds the port
AddrInUse(i, addr) ==
  \E j \in Inst \ {i} : Listening(j) /\ proc[j].port = addr.port

\* line 13: httpd = server_class(server_address, handler_class)
\* (server_bind + server_activate; an OSError propagates out of run()).
Run(i) ==
  /\ proc[i].pc = "start"
  /\ \A j \in Inst : j < i => proc[j].pc # "start"
  /\ \E argv \in Argvs, environ \in Environs :
       LET addr == ServerAddress(argv, environ) IN
         proc' = [proc EXCEPT ![i] =
                    IF AddrInUse(i, addr)
                      THEN [pc |-> "oserror", host |-> "", port |-> 0]
                      ELSE [pc |-> "bound", host |-> addr.host, port |-> addr.port]]
  /\ UNCHANGED <<backlog, conn, hnd, wire, stderr, obs>>

\* lines 14-15: print(...) ; httpd.serve_forever()
ServeForever(i) ==
  /\ proc[i].pc = "bound"
  /\ proc' = [proc EXCEPT ![i].pc = "select"]
  /\ UNCHANGED <<backlog, conn, hnd, wire, stderr, obs>>

\* ------------------------------------------------------------- clients
Connect(c) ==
  /\ conn[c].st = "idle"
  /\ \E i \in Inst :
       /\ Listening(i)
       /\ conn' = [conn EXCEPT ![c] = [st |-> "queued", srv |-> i, peer |-> "open", sent |-> FALSE]]
       /\ backlog' = [backlog EXCEPT ![i] = Append(@, c)]
  /\ UNCHANGED <<proc, hnd, wire, stderr, obs>>

\* The request of the client is in the socket the server accepted; which
\* request it is shows when the server reads it.  (Nothing reads a socket
\* that is still in the backlog: what a client did to it before the accept
\* takes effect here, after it.)
ClientSend(c) ==
  /\ conn[c].st = "accepted"
  /\ conn[c].peer = "open" /\ ~conn[c].sent
  /\ conn' = [conn EXCEPT ![c].sent = TRUE]
  /\ UNCHANGED <<proc, backlog, hnd, wire, stderr, obs>>

\* The client closes or resets its end.
ClientAbort(c) ==
  /\ conn[c].st = "accepted"
  /\ conn[c].peer = "open"
  /\ conn' = [conn EXCEPT ![c].peer = "gone"]
  /\ UNCHANGED <<proc, backlog, hnd, wire, stderr, obs>>

\* Variant: a threading server, which accepts while a handler runs
AcceptThreaded(i) ==
  /\ proc[i].pc \in {"select", "handle"}
  /\ backlog[i] # <<>>
  /\ LET c == Head(backlog[i]) IN
       /\ conn' = [conn EXCEPT ![c].st = "accepted"]
       /\ hnd'  = [hnd EXCEPT ![c] = NewHandler]
  /\ backlog' = [backlog EXCEPT ![i] = Tail(@)]
  /\ proc' = [proc EXCEPT ![i].pc = "handle"]
  /\ UNCHANGED <<wire, stderr, obs>>

\* ------------------------------------------------------ the serve loop
\* serve_forever -> _handle_request_noblock -> get_request (accept) ->
\* process_request -> finish_request: the handler object is constructed and
\* runs in the server's own thread.
Accept(i) ==
  /\ proc[i].pc = "select"
  /\ backlog[i] # <<>>
  /\ LET c == Head(backlog[i]) IN
       /\ conn' = [conn EXCEPT ![c].st = "accepted"]
       /\ hnd'  = [hnd EXCEPT ![c] = NewHandler]
  /\ backlog' = [backlog EXCEPT ![i] = Tail(@)]
  /\ proc' = [proc EXCEPT ![i].pc = "handle"]
  /\ UNCHANGED <<wire, stderr, obs>>

\* Variant: the connection is kept alive
AfterOneKeepAlive(h) == "read"

\* handle(): further requests are read only while close_connection is false
AfterOne(h) == IF h.close_connection THEN "finished" ELSE "read"

\* Variant: do_POST = do_GET
MethodEntryPost(method) ==
  CASE method \in {"GET", "POST"} -> "do_GET:5"
    [] method = "HEAD"            -> "do_HEAD"
    [] OTHER                      -> ""

\* getattr(self, 'do_' + command): do_GET is MyHandler's (app.py line 4),
\* do_HEAD is inherited from SimpleHTTPRequestHandler (line 3); "" stands
\* for no such attribute.
MethodEntry(method) ==
  CASE method = "GET"  -> "do_GET:5"
    [] method = "HEAD" -> "do_HEAD"
    [] OTHER           -> ""

HasHandler(method) == MethodEntry(method) # ""

\* send_error(code): the whole error reply.  t is the time date_time_string
\* reads, o1 the outcome of the write in end_headers, o2 of the write of the
\* body.
ErrorHeaders(h, code, t) ==
  SendResponseItems(h, code, t) \o SendHeaderItems(h, "Connection", "close")
    \o SendHeaderItems(h, "Content-Type", "text/html;charset=utf-8")
    \o SendHeaderItems(h, "Content-Length", "len")
    \o EndHeadersItems(h)

ErrorBody(h, code) ==
  IF h.command # "HEAD" THEN <<Item("body", "", "Error response", code)>> ELSE <<>>

SendError(c, h, code, t, o1, o2) ==
  LET hdrs == h.hbuf \o ErrorHeaders(h, code, t)
      flushes == h.request_version # "HTTP/0.9"
      h1 == [h EXCEPT !.close_connection = TRUE] IN
  /\ stderr' = [stderr EXCEPT ![conn[c].srv] = LogLine(@)]
  /\ IF flushes /\ o1 = "raise"
       THEN /\ hnd' = [hnd EXCEPT ![c] = [h1 EXCEPT !.pc = "raised", !.hbuf = hdrs]]
            /\ wire' = wire
       ELSE IF ErrorBody(h, code) # <<>> /\ o2 = "raise"
         THEN /\ hnd' = [hnd EXCEPT ![c] = [h1 EXCEPT !.pc = "raised", !.hbuf = <<>>]]
              /\ wire' = [wire EXCEPT ![c] = @ \o hdrs]
         ELSE /\ hnd' = [hnd EXCEPT ![c] =
                          [h1 EXCEPT !.pc = AfterOne(h1), !.hbuf = <<>>]]
              /\ wire' = [wire EXCEPT ![c] = @ \o hdrs \o ErrorBody(h, code)]

\* handle_one_request: readline, parse_request, dispatch on 'do_' + command.
\* rfile.readline blocks (the socket has no timeout) until the request has
\* arrived or the peer has closed.
HandleOneRequest(c) ==
  /\ hnd[c].pc = "read"
  /\ \/ \* EOF: the peer closed without sending a request line
        /\ conn[c].peer = "gone" /\ ~conn[c].sent
        /\ hnd' = [hnd EXCEPT ![c].pc = "finished", ![c].close_connection = TRUE]
        /\ UNCHANGED <<wire, stderr>>
     \/ \E r \in Requests, t \in Times,
           o1 \in WriteOutcomes(c), o2 \in WriteOutcomes(c) :
          /\ conn[c].sent
          /\ LET h0 == [hnd[c] EXCEPT !.req = r, !.close_connection = TRUE] IN
               IF r.version = "HTTP/2.0"
                 THEN SendError(c, h0, 505, t, o1, o2)
               ELSE IF r.version = "HTTP/0.9" /\ r.method # "GET"
                 THEN SendError(c, h0, 400, t, o1, o2)
               ELSE
                 LET h1 == [h0 EXCEPT !.command = r.method,
                                      !.request_version = r.version] IN
                 IF ~HasHandler(r.method)
                   THEN SendError(c, h1, 501, t, o1, o2)
                   ELSE /\ hnd' = [hnd EXCEPT ![c] =
                                    [h1 EXCEPT !.pc = MethodEntry(r.method)]]
                        /\ UNCHANGED <<wire, stderr>>
  /\ UNCHANGED <<proc, backlog, conn, obs>>

\* ------------------------------------------------------ MyHandler.do_GET
\* line 5: self.send_response(200)   (log_request, status line, Server, Date)
DoGet5(c) ==
  /\ hnd[c].pc = "do_GET:5"
  /\ \E t \in Times :
       hnd' = [hnd EXCEPT ![c].pc = "do_GET:6",
                          ![c].hbuf = @ \o SendResponseItems(hnd[c], 200, t)]
  /\ stderr' = [stderr EXCEPT ![conn[c].srv] = LogLine(@)]
  /\ UNCHANGED <<proc, backlog, conn, wire, obs>>

\* line 6: self.send_header("Content-type", "text/html")
DoGet6(c) ==
  /\ hnd[c].pc = "do_GET:6"
  /\ hnd' = [hnd EXCEPT ![c].pc = "do_GET:7",
                        ![c].hbuf = @ \o SendHeaderItems(hnd[c], "Content-type", "text/html")]
  /\ UNCHANGED <<proc, backlog, conn, wire, stderr, obs>>

\* line 7: self.send_header("Author", "me")
DoGet7(c) ==
  /\ hnd[c].pc = "do_GET:7"
  /\ hnd' = [hnd EXCEPT ![c].pc = "do_GET:8",
                        ![c].hbuf = @ \o SendHeaderItems(hnd[c], "Author", "me")]
  /\ UNCHANGED <<proc, backlog, conn, wire, stderr, obs>>

\* line 8: self.end_headers()   (blank line, then flush_headers writes the
\* buffer and empties it; nothing at all for HTTP/0.9)
DoGet8(c) ==
  /\ hnd[c].pc = "do_GET:8"
  /\ \E o \in WriteOutcomes(c) :
       LET buf == hnd[c].hbuf \o EndHeadersItems(hnd[c]) IN
       IF hnd[c].request_version # "HTTP/0.9" /\ o = "raise"
         THEN /\ hnd' = [hnd EXCEPT ![c].pc = "raised", ![c].hbuf = buf]
              /\ wire' = wire
         ELSE /\ hnd' = [hnd EXCEPT ![c].pc = "do_GET:9", ![c].hbuf = <<>>]
              /\ wire' = [wire EXCEPT ![c] = @ \o buf]
  /\ UNCHANGED <<proc, backlog, conn, stderr, obs>>

\* line 9: self.wfile.write(b"Hello, again!")
DoGet9(c) ==
  /\ hnd[c].pc = "do_GET:9"
  /\ \E o \in WriteOutcomes(c) :
       IF o = "raise"
         THEN /\ hnd' = [hnd EXCEPT ![c].pc = "raised"]
              /\ wire' = wire
         ELSE /\ hnd' = [hnd EXCEPT ![c].pc = AfterOne(hnd[c])]
              /\ wire' = [wire EXCEPT ![c] = Append(@, Body(HelloBody))]
  /\ UNCHANGED <<proc, backlog, conn, stderr, obs>>

\* ---------------------------------- SimpleHTTPRequestHandler.do_HEAD
\* MyHandler overrides do_GET only.  do_HEAD answers from the file system
\* (send_head): a file or listing (200), a redirect to the directory (301)
\* or send_error(404); it never writes a body.
HeadOutcomes == {200, 301, 404}

HeadHeaders(h, code, t) ==
  SendResponseItems(h, code, t)
    \o (IF code = 200
          THEN SendHeaderItems(h, "Content-type", "file-type")
                 \o SendHeaderItems(h, "Content-Length", "len")
          ELSE SendHeaderItems(h, "Location", "dir/")
                 \o SendHeaderItems(h, "Content-Length", "0"))
    \o EndHeadersItems(h)

DoHead(c) ==
  /\ hnd[c].pc = "do_HEAD"
  /\ \E code \in HeadOutcomes, t \in Times, o \in WriteOutcomes(c) :
       IF code = 404
         THEN SendError(c, hnd[c], 404, t, o, o)
         ELSE /\ stderr' = [stderr EXCEPT ![conn[c].srv] = LogLine(@)]
              /\ IF o = "raise"
                   THEN /\ hnd' = [hnd EXCEPT ![c].pc = "raised",
                                      ![c].hbuf = @ \o HeadHeaders(hnd[c], code, t)]
                        /\ wire' = wire
                   ELSE /\ hnd' = [hnd EXCEPT ![c].pc = AfterOne(hnd[c])]
                        /\ wire' = [wire EXCEPT ![c] =
                                      @ \o hnd[c].hbuf \o HeadHeaders(hnd[c], code, t)]
  /\ UNCHANGED <<proc, backlog, conn, obs>>

\* ------------------------------------------- back in the serve loop
\* Variant: the exception of a handler leaves serve_forever
AfterRequestRaise(outcome) == IF outcome = "raised" THEN "crashed" ELSE "select"

\* _handle_request_noblock: "except Exception: handle_error(); shutdown_request()"
\* an exception of the handler is logged and the loop goes on.
AfterRequest(outcome) == "select"

\* The exchange an observer of the connection has seen when it is closed,
\* the time in its Date header aside.
MaskDate(w) ==
  [k \in DOMAIN w |-> IF w[k].name = "Date" THEN DateHeader(0) ELSE w[k]]

Exchange(c) ==
  [on |-> TRUE, set |-> TRUE, req |-> hnd[c].req, wire |-> MaskDate(wire[c])]

\* shutdown_request: the connection is closed and the handler dropped.
ShutdownRequest(i, c) ==
  /\ proc[i].pc = "handle"
  /\ conn[c].st = "accepted" /\ conn[c].srv = i
  /\ hnd[c].pc \in {"finished", "raised"}
  /\ proc' = [proc EXCEPT ![i].pc = AfterRequest(hnd[c].pc)]
  /\ stderr' = [stderr EXCEPT ![i] =
                  IF hnd[c].pc = "raised" THEN LogLine(@) ELSE @]
  /\ conn' = [conn EXCEPT ![c] = NoConn]
  /\ hnd' = [hnd EXCEPT ![c] = NoHandler]
  /\ wire' = [wire EXCEPT ![c] = <<>>]
  /\ IF obs.on /\ hnd[c].pc = "finished" /\ hnd[c].command = "GET"
       THEN obs' \in {obs, Exchange(c)}
       ELSE obs' = obs
  /\ UNCHANGED <<backlog>>

\* External termination (signal, process kill): the process, its socket and
\* every connection of it are gone.
Kill(i) ==
  /\ Listening(i)
  /\ proc' = [proc EXCEPT ![i] = [pc |-> "killed", host |-> "", port |-> 0]]
  /\ stderr' = [stderr EXCEPT ![i] = FALSE]
  /\ backlog' = [backlog EXCEPT ![i] = <<>>]
  /\ conn' = [c \in Conns |-> IF conn[c].srv = i THEN NoConn ELSE conn[c]]
  /\ hnd'  = [c \in Conns |-> IF conn[c].srv = i THEN NoHandler ELSE hnd[c]]
  /\ wire' = [c \in Conns |-> IF conn[c].srv = i THEN <<>> ELSE wire[c]]
  /\ UNCHANGED obs

Next ==
  \/ \E i \in Inst : Run(i)
  \/ \E i \in Inst : ServeForever(i)
  \/ \E i \in Inst : Accept(i)
  \/ \E i \in Inst, c \in Conns : ShutdownRequest(i, c)
  \/ \E i \in Inst : Kill(i)
  \/ \E c \in Conns : Connect(c)
  \/ \E c \in Conns : ClientSend(c)
  \/ \E c \in Conns : ClientAbort(c)
  \/ \E c \in Conns : HandleOneRequest(c)
  \/ \E c \in Conns : DoGet5(c)
  \/ \E c \in Conns : DoGet6(c)
  \/ \E c \in Conns : DoGet7(c)
  \/ \E c \in Conns : DoGet8(c)
  \/ \E c \in Conns : DoGet9(c)
  \/ \E c \in Conns : DoHead(c)

Spec == Init /\ [][Next]_vars

\* ============================================================ properties
StatusOf(w)        == SelectSeq(w, LAMBDA x : x.t = "status")
HeadersOf(w, name) == SelectSeq(w, LAMBDA x : x.t = "header" /\ x.name = name)
BodyOf(w)          == SelectSeq(w, LAMBDA x : x.t = "body")
AllHeaders(w)      == SelectSeq(w, LAMBDA x : x.t = "header")

\* handle_one_request has returned for a request that parsed as a GET
GetDone(c) == hnd[c].pc = "finished" /\ hnd[c].req.method = "GET"
                /\ hnd[c].req.version # "HTTP/2.0"

Http1(c) == hnd[c].req.version = "HTTP/1.1"

HasFixedParts(w) ==
  /\ StatusOf(w) = <<StatusLine("HTTP/1.0", 200, "OK")>>
  /\ HeadersOf(w, "Content-type") = <<Header("Content-type", "text/html")>>
  /\ HeadersOf(w, "Author") = <<Header("Author", "me")>>
  /\ BodyOf(w) = <<Body("Hello, again!")>>
  /\ Len(BodyOf(w)[1].value) = 13

\* C1 as stated: every GET request the server accepts, whatever its path, is
\* answered with status 200, Content-type: text/html, Author: me and the
\* 13-byte body "Hello, again!".
C1_AsStated == \A c \in Conns : GetDone(c) => HasFixedParts(wire[c])

\* C1 amended: every HTTP/1.x GET request the server accepts, whatever its
\* path, is answered with status 200, Content-type: text/html, Author: me and
\* the 13-byte body "Hello, again!" with no trailing newline; an HTTP/0.9 GET
\* (a request line without a version) is answered with the body alone.
C1_GetResponse ==
  \A c \in Conns :
    GetDone(c) =>
      IF Http1(c) THEN HasFixedParts(wire[c])
                  ELSE wire[c] = <<Body("Hello, again!")>>

C1_Witness ==
  \E c \in Conns : GetDone(c) /\ Http1(c) /\ hnd[c].req.path = "/anything/else"

\* C2: two GET requests that differ only in path and/or request body get the
\* same status, the same Content-type and Author headers and the same body.
C2_PathBodyIgnored ==
  \A c \in Conns :
    (GetDone(c) /\ obs.set /\ obs.req.version = hnd[c].req.version) =>
      /\ StatusOf(wire[c]) = StatusOf(obs.wire)
      /\ HeadersOf(wire[c], "Content-type") = HeadersOf(obs.wire, "Content-type")
      /\ HeadersOf(wire[c], "Author") = HeadersOf(obs.wire, "Author")
      /\ BodyOf(wire[c]) = BodyOf(obs.wire)

C2_Witness ==
  \E c \in Conns :
    /\ GetDone(c) /\ obs.set /\ obs.req.version = hnd[c].req.version
    /\ obs.req.path = "/" /\ hnd[c].req.path = "/anything/else"
    /\ obs.req.body # hnd[c].req.body

C4_AsStated ==
  \A c \in Conns :
    (hnd[c].pc = "finished" /\ hnd[c].req.method \in Methods \ {"GET"}
       /\ hnd[c].req.version = "HTTP/1.1") =>
      /\ Len(StatusOf(wire[c])) = 1
      /\ StatusOf(wire[c])[1].n = 501

\* Nothing of the response do_GET writes is on the wire
NotHello(w) == HeadersOf(w, "Author") = <<>> /\ BodyOf(w) # <<Body("Hello, again!")>>

\* C4 amended: an HTTP/1.x request with a method other than GET and HEAD
\* (POST) is answered with 501; HEAD is answered by the inherited do_HEAD
\* from the file system (200, 301 or 404 here), without a body; a non-GET request line without a version gets
\* the 400 page; no non-GET request is answered with the do_GET response.
C4_NonGet ==
  \A c \in Conns :
    /\ (hnd[c].req.method \in Methods \ {"GET"}) => NotHello(wire[c])
    /\ (hnd[c].pc = "finished" /\ hnd[c].req.version = "HTTP/1.1") =>
         /\ hnd[c].req.method = "POST" =>
              /\ Len(StatusOf(wire[c])) = 1 /\ StatusOf(wire[c])[1].n = 501
         /\ hnd[c].req.method = "HEAD" =>
              /\ Len(StatusOf(wire[c])) = 1
              /\ StatusOf(wire[c])[1].n \in HeadOutcomes
              /\ BodyOf(wire[c]) = <<>>
    /\ (hnd[c].pc = "finished" /\ hnd[c].req.version = "HTTP/0.9"
          /\ hnd[c].req.method \in Methods \ {"GET"}) =>
         /\ StatusOf(wire[c]) = <<>>
         /\ Len(BodyOf(wire[c])) = 1 /\ BodyOf(wire[c])[1].n = 400

C4_Witness ==
  \E c \in Conns : /\ hnd[c].pc = "finished" /\ hnd[c].req.method = "POST"
                   /\ hnd[c].req.version = "HTTP/1.1" /\ wire[c] # <<>>

\* The response of do_GET to an HTTP/1.x request, the time of Date aside
FixedGetResponse ==
  <<StatusLine("HTTP/1.0", 200, "OK"), Header("Server", version_string),
    DateHeader(0), Header("Content-type", "text/html"), Header("Author", "me"),
    EndOfHeaders, Body("Hello, again!")>>

\* C5 as stated: the response to a GET request is a status line, exactly
\* the two headers Content-type and Author and the body, the same whenever
\* it is sent.
C5_AsStated ==
  \A c \in Conns :
    (GetDone(c) /\ Http1(c)) =>
      wire[c] = <<StatusLine("HTTP/1.0", 200, "OK"),
                  Header("Content-type", "text/html"), Header("Author", "me"),
                  EndOfHeaders, Body("Hello, again!")>>

\* C5 amended: the response to an HTTP/1.x GET request is the status line,
\* the Server and Date headers send_response adds, exactly the two headers
\* Content-type and Author the program sets, the blank line and the static
\* body; but for the time in the Date header it is the same for every such
\* request whenever it is sent.
C5_FixedResponse ==
  \A c \in Conns :
    (GetDone(c) /\ Http1(c)) =>
      /\ MaskDate(wire[c]) = FixedGetResponse
      /\ Len(AllHeaders(wire[c])) = 4
      /\ wire[c][3].n \in Times

C5_Witness ==
  \E c \in Conns : GetDone(c) /\ Http1(c) /\ wire[c] # MaskDate(wire[c])

\* C6: the server listens on port 8000 on all interfaces whatever the
\* command line and the environment are, and the address it listens on
\* never changes while the process lives.
C6_PortFixed ==
  /\ [](\A i \in Inst :
          Listening(i) => (proc[i].port = 8000 /\ proc[i].host = ""))
  /\ [][\A i \in Inst :
          (Listening(i) /\ Listening(i)') =>
             (proc'[i].port = proc[i].port /\ proc'[i].host = proc[i].host)]_vars

C6_Witness == proc[1].pc = "select" /\ stderr[1] /\ proc[1].port = 8000

ServerStep(i) ==
  \/ ServeForever(i)
  \/ Accept(i)
  \/ \E c \in Conns : ShutdownRequest(i, c)
  \/ \E c \in Accepted(i) :
       \/ HandleOneRequest(c)
       \/ DoGet5(c) \/ DoGet6(c) \/ DoGet7(c) \/ DoGet8(c) \/ DoGet9(c)
       \/ DoHead(c)

InitFair == InitProgram /\ obs = ObsOff

FairSpec ==
  /\ InitFair
  /\ [][Next]_vars
  /\ \A i \in Inst : WF_vars(ServerStep(i))

InLoop(i) == proc[i].pc \in {"select", "handle"}

\* The request (or the end of the stream) the handler of i waits for is there
RequestArrived(i) ==
  \A c \in Accepted(i) :
    hnd[c].pc = "read" => (conn[c].sent \/ conn[c].peer = "gone")

GetAccepted(c) == hnd[c].command = "GET" /\ hnd[c].pc \notin {"finished", "raised"}

\* C8 as stated: the handling of an accepted GET request ends only with its
\* response written in full, unless the process is terminated from outside
\* (so that under fairness every accepted GET request receives its response).
C8_AsStated ==
  [][\A c \in Conns :
       (GetAccepted(c) /\ ~GetAccepted(c)') =>
          (GetDone(c)' \/ proc'[conn[c].srv].pc = "killed")]_vars

\* C8 amended: a server that has entered its loop leaves it only by external
\* termination; the handling of an accepted GET request ends only with its
\* response written in full, with a failed write to a client that has gone,
\* or with the termination of the process; and under fairness the server,
\* once a request has arrived on the accepted connection, returns to
\* accepting (or is terminated), also when the handler raised.
C8_NeverStops ==
  /\ [][\A i \in Inst :
          (InLoop(i) /\ ~InLoop(i)') => proc'[i].pc = "killed"]_vars
  /\ [][\A c \in Conns :
          (GetAccepted(c) /\ ~GetAccepted(c)') =>
             \/ GetDone(c)'
             \/ hnd'[c].pc = "raised" /\ conn[c].peer = "gone"
             \/ proc'[conn[c].srv].pc = "killed"]_vars
  /\ \A i \in Inst :
       (proc[i].pc = "handle" /\ RequestArrived(i))
          ~> (proc[i].pc \in {"select", "killed"})

C8_Witness ==
  /\ proc[1].pc = "select" /\ stderr[1]
  /\ \E c \in Conns : conn[c].st = "queued" /\ conn[c].srv = 1

\* The parts of a response the claim orders
Ordered(w) ==
  SelectSeq(w, LAMBDA x : \/ x.t \in {"status", "end", "body"}
                          \/ x.t = "header" /\ x.name \in {"Content-type", "Author"})

GetOrder ==
  <<StatusLine("HTTP/1.0", 200, "OK"), Header("Content-type", "text/html"),
    Header("Author", "me"), EndOfHeaders, Body("Hello, again!")>>

IsPrefix(a, b) == Len(a) <= Len(b) /\ SubSeq(b, 1, Len(a)) = a

\* C9 as stated: the response to an accepted GET request is the 200 status
\* line, the Content-type header, the Author header, the end of headers and
\* the body, in this order and once each.
C9_AsStated == \A c \in Conns : GetDone(c) => Ordered(wire[c]) = GetOrder

\* C9 amended: while an HTTP/1.x GET request is handled the output is
\* produced in the order status line, Content-type, Author, end of headers,
\* body, once each; no body is on the wire before the end of headers; one
\* response is produced per accepted GET request, and the connection is not
\* read again.  (An HTTP/0.9 GET produces the body alone, once.)
C9_Order ==
  \A c \in Conns :
    (hnd[c].command = "GET") =>
      /\ Http1(c) =>
           /\ IsPrefix(Ordered(wire[c] \o hnd[c].hbuf), GetOrder)
           /\ BodyOf(wire[c]) # <<>> => EndOfHeaders = wire[c][Len(wire[c]) - 1]
           /\ hnd[c].pc = "finished" => Ordered(wire[c]) = GetOrder
      /\ ~Http1(c) => IsPrefix(wire[c], <<Body("Hello, again!")>>)
      /\ hnd[c].pc # "read"

C9_Witness ==
  \E c \in Conns :
    /\ hnd[c].command = "GET" /\ Http1(c) /\ hnd[c].pc = "do_GET:9"
    /\ wire[c] # <<>> /\ BodyOf(wire[c]) = <<>>

\* C10: the response to a GET request is the same, the time in Date aside,
\* as that to any earlier GET request of the same form, whatever requests
\* (GET, other or failed) were handled in between.
C10_Stateless ==
  \A c \in Conns :
    (GetDone(c) /\ obs.set /\ obs.req.version = hnd[c].req.version) =>
      MaskDate(wire[c]) = obs.wire

C10_Witness ==
  \E c \in Conns :
    /\ GetDone(c) /\ obs.set /\ obs.req.version = hnd[c].req.version
    /\ Http1(c) /\ stderr[conn[c].srv]

====
